---- MODULE Spec2Model ----
(***************************************************************************)
(* hypcmp: a driver that runs `hyperfine` once per configured run, merges  *)
(* the per-run JSON exports and restores the git revision it started on.   *)
(*                                                                         *)
(* Three specifications share this module:                                 *)
(*   Spec         the orchestrator, `main` of src/src/main.rs              *)
(*   SpecResolve  commit-set resolution, src/src/core.rs                   *)
(*   SpecSynth    hyperfine parameter synthesis, src/src/core.rs           *)
(***************************************************************************)
EXTENDS Integers, Sequences, FiniteSets, TLC

VARIABLES
    \* ---- orchestrator (main.rs) ----
    pc,                 \* the statement main stands at
    exit,               \* "running", or how main ended there: "Ok", "Err", "Panic"
    dirty,              \* environment: `git diff --quiet` exits non-zero
    installed,          \* environment: a `hyperfine` executable can be spawned
    config_ok,          \* environment: the configuration file reads and parses
    writable,           \* environment: File::create(output) succeeds
    c,                  \* the Benchmark read by from_config
    head,               \* what get_current_branch_or_id returns for the working tree
    current_branch,     \* main's local `current_branch`
    files_to_be_merged, \* main's local `files_to_be_merged`
    statuses,           \* exit status of every hyperfine process run so far
    fs,                 \* per-run export files in the temporary directory
    cmd_args,           \* argument sequence of the last Command built
    report,             \* what write_json_to_disk put at c.output
    \* ---- commit-set resolution (core.rs) ----
    git,                \* the repository the git queries read
    vec,                \* the raw `commits` token list
    resolved,           \* what from_commit returned: Ok(list), Err(..) or a panic
    \* ---- parameter synthesis (core.rs) ----
    run,                \* the Run
    kw_order,           \* iteration order of the annotations HashMap
    params,             \* the synthesis called and the argument sequence it returned
    calls               \* how often a synthesis was called on the Run

orchVars    == <<pc, exit, dirty, installed, config_ok, writable, c, head,
                 current_branch, files_to_be_merged, statuses, fs, cmd_args, report>>
resolveVars == <<git, vec, resolved>>
synthVars   == <<run, kw_order, params, calls>>
vars        == <<orchVars, resolveVars, synthVars>>

-----------------------------------------------------------------------------
(* Option<T>: None is the empty sequence, Some(v) the one-element sequence. *)
None       == <<>>
Some(v)    == <<v>>
IsSome(o)  == o # <<>>
Unwrap(o)  == o[1]
Option(S)  == {None} \cup {Some(v) : v \in S}

Last(s)    == s[Len(s)]
Range(s)   == {s[k] : k \in 1..Len(s)}

(* [String]::join(sep) *)
RECURSIVE join(_, _)
join(s, sep) ==
    IF Len(s) = 0 THEN ""
    ELSE IF Len(s) = 1 THEN s[1]
    ELSE s[1] \o sep \o join(Tail(s), sep)

-----------------------------------------------------------------------------
(*                      The orchestrator: main.rs                          *)

MaxRuns    == 2     \* most runs in a configuration

Labels     == {"a", "b", "c"}                   \* run labels (keys of `run`)
KnownRevs  == {"main", "v1", "abc1234"}         \* revisions git can check out
CommitLists == {<<"v1">>, <<"v1", "abc1234">>, <<"nosuchrev">>}
TempDir    == "/tmp/.tmpXq"                     \* tempfile::tempdir()

(* struct Run of main.rs *)
MainRuns ==
    [commits : Option(CommitLists), cleanup : Option({"rm -f x"}),
     prepare : {None}, setup : {None}, command : {"cmd"}]

(* struct Benchmark of main.rs; `run` is listed in the order the HashMap iterates *)
Benchmarks ==
    [output : {"out.json"}, hyperfine_params : {<<"--runs", "5">>},
     run : {r \in UNION {[1..k -> Labels \X MainRuns] : k \in 0..MaxRuns} :
               \A a, b \in 1..Len(r) : a # b => r[a][1] # r[b][1]}]

NoBenchmark == [output |-> "", hyperfine_params |-> <<>>, run |-> <<>>]

(* Benchmark::to_hyperfine_params *)
Benchmark_to_hyperfine_params(b) == b.hyperfine_params

(* Run::to_hyperfine_params of main.rs *)
Run_to_hyperfine_params(r) ==
    (IF IsSome(r.commits)
        THEN <<"--parameter-list", "commit", join(Unwrap(r.commits), ",")>> ELSE <<>>)
    \o (IF IsSome(r.cleanup) THEN <<"--cleanup", Unwrap(r.cleanup)>> ELSE <<>>)
    \o (IF IsSome(r.prepare) THEN <<"--prepare", Unwrap(r.prepare)>> ELSE <<>>)
    \o (IF IsSome(r.setup) /\ IsSome(r.commits)
           THEN <<"--setup", "git checkout {commit} && " \o Unwrap(r.setup)>>
        ELSE IF IsSome(r.commits)
           THEN <<"--setup", "git checkout {commit}">>
        ELSE <<>>)
    \o <<r.command>>

(* dir.path().join(label + ".json") *)
JsonPath(label) == TempDir \o "/" \o label \o ".json"

(* The argument sequence main gives one run's Command *)
CommandArgs(b, label, r) ==
    Benchmark_to_hyperfine_params(b)
    \o <<"--export-json", JsonPath(label)>>
    \o Run_to_hyperfine_params(r)

(* What hyperfine exports for a run: one result per value of the commit
   parameter, or a single result when there is no parameter list. *)
ExportOf(r) ==
    IF IsSome(r.commits)
        THEN [k \in 1..Len(Unwrap(r.commits)) |->
                 [command |-> r.command, parameters |-> Some(Unwrap(r.commits)[k])]]
        ELSE <<[command |-> r.command, parameters |-> None]>>

(* main returns Err, returns Ok or panics where it stands *)
Terminate(kind) == /\ pc' = pc
                   /\ exit' = kind

Running == exit = "running"

(* main.rs:19 is_git_dirty()? *)
IsGitDirty ==
    /\ Running /\ pc = "is_git_dirty"
    /\ IF dirty THEN Terminate("Err") ELSE pc' = "from_config" /\ exit' = exit
    /\ UNCHANGED <<resolveVars, synthVars, dirty, installed, config_ok, writable, c, head,
                   current_branch,
                   files_to_be_merged, statuses, fs, cmd_args, report>>

(* main.rs:21 Benchmark::from_config(config.config)? *)
FromConfig ==
    /\ Running /\ pc = "from_config"
    /\ IF config_ok
          THEN \E b \in Benchmarks : c' = b /\ pc' = "tempdir" /\ exit' = exit
          ELSE Terminate("Err") /\ c' = c
    /\ UNCHANGED <<resolveVars, synthVars, dirty, installed, config_ok, writable, head,
                   current_branch,
                   files_to_be_merged, statuses, fs, cmd_args, report>>

(* main.rs:24-26 the temporary directory, the empty list, the current revision *)
RecordBranch ==
    /\ Running /\ pc = "tempdir"
    /\ files_to_be_merged' = <<>>
    /\ current_branch' = Some(head)
    /\ pc' = IF Len(c.run) = 0 THEN "merge" ELSE "loop"
    /\ UNCHANGED <<resolveVars, synthVars, exit, dirty, installed, config_ok, writable, c, head,
                   statuses, fs, cmd_args, report>>

(* main.rs:28-43 one iteration of the loop over c.run *)
RunOne ==
    /\ Running /\ pc = "loop"
    /\ LET label == c.run[Len(statuses) + 1][1]
           r     == c.run[Len(statuses) + 1][2]
           ids   == IF IsSome(r.commits) THEN Unwrap(r.commits) ELSE <<>>
       IN  /\ cmd_args' = CommandArgs(c, label, r)
           /\ IF ~installed
                 THEN \* cmd.output() is Err: expect("Failed") panics
                      /\ Terminate("Panic")
                      /\ UNCHANGED <<head, files_to_be_merged, statuses, fs>>
                 ELSE /\ \/ \* hyperfine exits 0: every revision was timed, the export is written
                            /\ Range(ids) \subseteq KnownRevs
                            /\ statuses' = Append(statuses, 0)
                            /\ head' = IF ids = <<>> THEN head ELSE Last(ids)
                            /\ fs' = [fs EXCEPT ![JsonPath(label)] = Some(ExportOf(r))]
                         \/ \* hyperfine exits non-zero somewhere on the way: no export
                            /\ statuses' = Append(statuses, 1)
                            /\ head' \in {head} \cup (Range(ids) \cap KnownRevs)
                            /\ fs' = fs
                      /\ files_to_be_merged' = Append(files_to_be_merged, JsonPath(label))
                      /\ pc' = IF Len(statuses') = Len(c.run) THEN "merge" ELSE "loop"
                      /\ exit' = exit
    /\ UNCHANGED <<resolveVars, synthVars, dirty, installed, config_ok, writable, c,
                   current_branch, report>>

(* main.rs:125-140 merge_json_files: Ok(document), Err or a panic *)
merge_json_files(files, disk) ==
    IF Len(files) = 0
        THEN [kind |-> "Panic", results |-> <<>>]       \* files[0] out of bounds
    ELSE IF \E k \in 1..Len(files) : ~IsSome(disk[files[k]])
        THEN [kind |-> "Err", results |-> <<>>]         \* File::open(..)?
    ELSE LET RECURSIVE cat(_)
             cat(k) == IF k > Len(files) THEN <<>>
                       ELSE Unwrap(disk[files[k]]) \o cat(k + 1)
         IN  [kind |-> "Ok", results |-> cat(1)]

(* main.rs:44 merge_json_files(&files_to_be_merged)? ; the document is held
   in `report` as None until it is written *)
MergeJsonFiles ==
    /\ Running /\ pc = "merge"
    /\ LET m == merge_json_files(files_to_be_merged, fs)
       IN  IF m.kind = "Ok"
              THEN pc' = "write" /\ exit' = exit
              ELSE Terminate(m.kind)
    /\ UNCHANGED <<resolveVars, synthVars, dirty, installed, config_ok, writable, c, head,
                   current_branch,
                   files_to_be_merged, statuses, fs, cmd_args, report>>

(* main.rs:45 and 116-123 write_json_to_disk(json, &c.output)? *)
WriteJsonToDisk ==
    /\ Running /\ pc = "write"
    /\ IF writable
          THEN /\ report' = Some(merge_json_files(files_to_be_merged, fs).results)
               /\ pc' = "cleanup"
               /\ exit' = exit
          ELSE Terminate("Err") /\ report' = report
    /\ UNCHANGED <<resolveVars, synthVars, dirty, installed, config_ok, writable, c, head,
                   current_branch,
                   files_to_be_merged, statuses, fs, cmd_args>>

(* main.rs:46 and 51-56 cleanup(files_to_be_merged, dir)?: the directory goes *)
Cleanup ==
    /\ Running /\ pc = "cleanup"
    /\ fs' = [p \in DOMAIN fs |-> None]
    /\ files_to_be_merged' = <<>>
    /\ pc' = "checkout"
    /\ UNCHANGED <<resolveVars, synthVars, exit, dirty, installed, config_ok, writable, c, head,
                   current_branch, statuses, cmd_args, report>>

(* main.rs:68-74 checkout(commit): the revision checked out afterwards *)
checkout(id, commit) == IF id # commit THEN commit ELSE id

(* main.rs:47-48 checkout(current_branch)?; Ok(()) *)
Checkout ==
    /\ Running /\ pc = "checkout"
    /\ head' = checkout(head, Unwrap(current_branch))
    /\ Terminate("Ok")
    /\ UNCHANGED <<resolveVars, synthVars, dirty, installed, config_ok, writable, c,
                   current_branch, files_to_be_merged, statuses, fs, cmd_args, report>>

OrchIdle ==
    /\ git = 0 /\ vec = <<>> /\ resolved = 0
    /\ run = 0 /\ kw_order = <<>> /\ params = <<>> /\ calls = 0

Init ==
    /\ pc = "is_git_dirty"
    /\ exit = "running"
    /\ dirty \in BOOLEAN
    /\ installed \in BOOLEAN
    /\ config_ok \in BOOLEAN
    /\ writable \in BOOLEAN
    /\ c = NoBenchmark
    /\ head \in KnownRevs
    /\ current_branch = None
    /\ files_to_be_merged = <<>>
    /\ statuses = <<>>
    /\ fs = [p \in {JsonPath(l) : l \in Labels} |-> None]
    /\ cmd_args = <<>>
    /\ report = None
    /\ OrchIdle

Next ==
    \/ IsGitDirty
    \/ FromConfig
    \/ RecordBranch
    \/ RunOne
    \/ MergeJsonFiles
    \/ WriteJsonToDisk
    \/ Cleanup
    \/ Checkout

Spec == Init /\ [][Next]_vars

-----------------------------------------------------------------------------
(*                     Claims about the orchestrator                       *)

Ended        == exit # "running"
LoopDone     == pc \in {"merge", "write", "cleanup", "checkout"}
Succeeded(k) == statuses[k] = 0
AnySucceeded == \E k \in 1..Len(statuses) : Succeeded(k)
MergeAttempted == (pc = "merge" /\ Ended) \/ pc \in {"write", "cleanup", "checkout"}
Unresolvable(r) == IsSome(r.commits) /\ ~(Range(Unwrap(r.commits)) \subseteq KnownRevs)

RECURSIVE SucceededExports(_)
SucceededExports(k) ==
    IF k > Len(statuses) THEN <<>>
    ELSE (IF Succeeded(k) THEN ExportOf(c.run[k][2]) ELSE <<>>) \o SucceededExports(k + 1)

(* C1: once the starting revision is recorded, every way main ends (Ok, Err
   or panic) leaves the working tree on that recorded revision. *)
C1_RestoredOnEveryExit ==
    (Ended /\ IsSome(current_branch)) => head = Unwrap(current_branch)

(* C2: a run whose hyperfine process exits non-zero has its JSON path left
   out of the merge set, the remaining runs still execute, and a written
   report holds the exports of the succeeded runs only. *)
C2_FailedRunsExcluded ==
    /\ \A k \in 1..Len(statuses) :
          (pc \in {"loop", "merge", "write"} /\ ~Succeeded(k))
              => JsonPath(c.run[k][1]) \notin Range(files_to_be_merged)
    /\ (Ended /\ pc \in {"merge", "write", "checkout"}) => Len(statuses) = Len(c.run)
    /\ IsSome(report) => Unwrap(report) = SucceededExports(1)

(* C3: when the loop is over and no run succeeded (all failed, or none is
   configured), merge_json_files is not attempted and no report is written. *)
C3_NoSuccessfulRuns ==
    (LoopDone /\ ~AnySucceeded) => (~MergeAttempted /\ ~IsSome(report))

(* C4: with a dirty tree, no hyperfine executable or a run whose commits do
   not resolve, no hyperfine process has run and the tree is where it was:
   main ends before the first run executes. *)
C4_PreflightStopsBeforeRuns ==
    (dirty \/ ~installed \/ \E k \in 1..Len(c.run) : Unresolvable(c.run[k][2]))
        => (statuses = <<>> /\ (IsSome(current_branch) => head = Unwrap(current_branch)))

(* C10: the arguments handed to hyperfine for a run are the shared
   parameters, then --command-name <label>, then --export-json <path of the
   run>, then the Run's own sequence. *)
C10_FinalArgumentOrder ==
    cmd_args # <<>> =>
        \E k \in 1..Len(c.run) :
            cmd_args = Benchmark_to_hyperfine_params(c)
                       \o <<"--command-name", c.run[k][1]>>
                       \o <<"--export-json", JsonPath(c.run[k][1])>>
                       \o Run_to_hyperfine_params(c.run[k][2])

-----------------------------------------------------------------------------
(*             Commit-set resolution: core.rs and util.rs                  *)

MaxTokens  == 2     \* longest `commits` list
MaxCommits == 2     \* longest history of the repository

(* str::starts_with, str::strip_prefix *)
starts_with(s, p)  == Len(s) >= Len(p) /\ SubSeq(s, 1, Len(p)) = p
strip_prefix(s, p) == IF starts_with(s, p) THEN Some(SubSeq(s, Len(p) + 1, Len(s))) ELSE None

(* str::split(ch) *)
RECURSIVE split(_, _)
split(s, ch) ==
    IF \E k \in 1..Len(s) : SubSeq(s, k, k) = ch
        THEN LET k == CHOOSE j \in 1..Len(s) :
                        SubSeq(s, j, j) = ch /\ \A i \in 1..(j - 1) : SubSeq(s, i, i) # ch
             IN  <<SubSeq(s, 1, k - 1)>> \o split(SubSeq(s, k + 1, Len(s)), ch)
        ELSE <<s>>

(* util.rs:61-68 trim_newline *)
trim_newline(s) ==
    IF Len(s) >= 1 /\ SubSeq(s, Len(s), Len(s)) = "\n"
        THEN LET t == SubSeq(s, 1, Len(s) - 1)
             IN  IF Len(t) >= 1 /\ SubSeq(t, Len(t), Len(t)) = "\r"
                    THEN SubSeq(t, 1, Len(t) - 1) ELSE t
        ELSE s

(* util.rs:197-201 to_string *)
to_string(msg) == trim_newline(msg)

(* ---- the repository behind the git commands ----
   A linear history, oldest commit first; every commit has an abbreviated
   and a full id; branches and tags name commits of the history. *)
AllCommits == <<"a1", "b2", "c3", "d4">>
FullId(a)  == a \o "f00d"
Repos ==
    [history  : {SubSeq(AllCommits, 1, n) : n \in 1..MaxCommits},
     branches : {<<"main">>, <<"dev", "main">>},
     tags     : {<<>>, <<"v1">>, <<"v1", "v2">>}]

(* the stdout of a git listing: every entry on a line of its own *)
RECURSIVE Stdout(_, _)
Stdout(entries, indent) ==
    IF entries = <<>> THEN ""
    ELSE indent \o Head(entries) \o "\n" \o Stdout(Tail(entries), indent)

Reverse(s) == [k \in 1..Len(s) |-> s[Len(s) + 1 - k]]

(* position in the history of the commit a revision names; 0 when git does
   not know the name.  main is the newest commit, dev and v1 the oldest,
   v2 the newest. *)
RevParse(g, name) ==
    LET n == Len(g.history)
    IN  IF \E k \in 1..n : name \in {g.history[k], FullId(g.history[k])}
           THEN CHOOSE k \in 1..n : name \in {g.history[k], FullId(g.history[k])}
        ELSE IF name = "HEAD" \/ (name = "main" /\ name \in Range(g.branches)) THEN n
        ELSE IF name = "dev" /\ name \in Range(g.branches) THEN 1
        ELSE IF name = "v1" /\ name \in Range(g.tags) THEN 1
        ELSE IF name = "v2" /\ name \in Range(g.tags) THEN n
        ELSE 0

(* `git rev-list <from>^..<to> --abbrev-commit`, or `git rev-list <to>^` when
   from is None: None when git exits non-zero (unknown name, or ^ of the
   root commit), else the stdout. *)
GitRevListRange(g, from, to) ==
    LET t == RevParse(g, to)
        f == IF IsSome(from) THEN RevParse(g, Unwrap(from)) ELSE 0
    IN  IF IsSome(from)
           THEN IF t = 0 \/ f <= 1 THEN None
                ELSE Some(Stdout(Reverse(SubSeq(g.history, f, t)), ""))
           ELSE IF t <= 1 THEN None
                ELSE Some(Stdout(Reverse(SubSeq(g.history, 1, t - 1)), ""))

(* util.rs:71-84 get_commit_ids: `git rev-list --all` *)
get_commit_ids(g) ==
    Some(split(to_string(Stdout(Reverse([k \in 1..Len(g.history) |-> FullId(g.history[k])]), "")), "\n"))

(* util.rs:113-127 get_abbrev_commit_ids: `git rev-list --all --abbrev-commit` *)
get_abbrev_commit_ids(g) ==
    Some(split(to_string(Stdout(Reverse(g.history), "")), "\n"))

(* util.rs:130-143 get_branches: `git branch --all`, two columns cut off *)
get_branches(g) ==
    LET lines == split(to_string(Stdout(g.branches, "  ")), "\n")
    IN  Some([k \in 1..Len(lines) |-> SubSeq(lines[k], 3, Len(lines[k]))])

(* util.rs:146-159 get_tags: `git tag --list` *)
get_tags(g) ==
    Some(split(to_string(Stdout(g.tags, "")), "\n"))

(* util.rs:87-110 get_commit_ids_since_before *)
get_commit_ids_since_before(g, since, before) ==
    LET out == IF IsSome(since) /\ IsSome(before)
                   THEN GitRevListRange(g, since, Unwrap(before))
               ELSE IF IsSome(before)
                   THEN GitRevListRange(g, None, Unwrap(before))
               ELSE IF IsSome(since)
                   THEN GitRevListRange(g, since, "HEAD")
               ELSE None
    IN  IF IsSome(out) THEN Some(split(to_string(Unwrap(out)), "\n")) ELSE None

(* enum Commits, core.rs:126-131; Panicked stands for a failed unwrap() *)
Valid              == [tag |-> "Valid", list |-> <<>>]
NoTagsFound        == [tag |-> "NoTagsFound", list |-> <<>>]
SpecialCaseAll(l)  == [tag |-> "SpecialCaseAll", list |-> l]
SomeInvalid(l)     == [tag |-> "SomeInvalid", list |-> l]
Panicked           == [tag |-> "Panic", list |-> <<>>]
unwrap_all(o)      == IF IsSome(o) THEN SpecialCaseAll(Unwrap(o)) ELSE Panicked

(* Iterator::find: the first element that starts with the prefix *)
find_prefixed(v, p) ==
    IF \E k \in 1..Len(v) : starts_with(v[k], p)
        THEN Some(v[CHOOSE k \in 1..Len(v) :
                       starts_with(v[k], p) /\ \A j \in 1..(k - 1) : ~starts_with(v[j], p)])
        ELSE None

(* the --tags rule without the look at the first entry *)
tags_rule_unchecked(g) == SpecialCaseAll(Unwrap(get_tags(g)))

(* core.rs:142-149 the --tags rule *)
tags_rule(g) ==
    LET tags == Unwrap(get_tags(g))
    IN  IF tags[1] = "" THEN NoTagsFound ELSE SpecialCaseAll(tags)

(* core.rs:150-162 the --since / --before rule *)
range_rule(v, g) ==
    LET s      == find_prefixed(v, "--since")
        b      == find_prefixed(v, "--before")
        since  == IF IsSome(s) THEN strip_prefix(Unwrap(s), "--since=") ELSE None
        before == IF IsSome(b) THEN strip_prefix(Unwrap(b), "--before=") ELSE None
    IN  unwrap_all(get_commit_ids_since_before(g, since, before))

(* core.rs:165-169 the identifiers an explicit token may name *)
known_commits(g) ==
    Unwrap(get_branches(g)) \o Unwrap(get_tags(g))
        \o Unwrap(get_abbrev_commit_ids(g)) \o Unwrap(get_commit_ids(g))

(* core.rs:163-182 the explicit list *)
explicit_rule(v, g) ==
    LET commits   == known_commits(g)
        not_found == SelectSeq(v, LAMBDA t : ~(\E k \in 1..Len(commits) : commits[k] = t))
    IN  IF not_found = <<>> THEN Valid ELSE SomeInvalid(not_found)

(* the cascade with the --branches test ahead of the --all test *)
check_correctness_branches_first(v, g) ==
    IF \E k \in 1..Len(v) : v[k] = "--branches"
        THEN unwrap_all(get_branches(g))
    ELSE IF \E k \in 1..Len(v) : v[k] = "--all"
        THEN unwrap_all(get_abbrev_commit_ids(g))
    ELSE IF \E k \in 1..Len(v) : v[k] = "--tags"
        THEN tags_rule(g)
    ELSE IF (\E k \in 1..Len(v) : starts_with(v[k], "--since"))
            \/ (\E k \in 1..Len(v) : starts_with(v[k], "--before"))
        THEN range_rule(v, g)
    ELSE explicit_rule(v, g)

(* core.rs:134-183 check_correctness_of_commit_ids *)
check_correctness_of_commit_ids(v, g) ==
    IF \E k \in 1..Len(v) : v[k] = "--all"
        THEN unwrap_all(get_abbrev_commit_ids(g))
    ELSE IF \E k \in 1..Len(v) : v[k] = "--branches"
        THEN unwrap_all(get_branches(g))
    ELSE IF \E k \in 1..Len(v) : v[k] = "--tags"
        THEN tags_rule(g)
    ELSE IF (\E k \in 1..Len(v) : starts_with(v[k], "--since"))
            \/ (\E k \in 1..Len(v) : starts_with(v[k], "--before"))
        THEN range_rule(v, g)
    ELSE explicit_rule(v, g)

(* core.rs:95-123 from_commit on Some(vec): Ok(Some(list)), Err or a panic *)
from_commit(v, g) ==
    LET r == check_correctness_of_commit_ids(v, g)
    IN  CASE r.tag = "Valid"          -> [kind |-> "Ok", commits |-> v, error |-> "", tokens |-> <<>>]
          [] r.tag = "SpecialCaseAll" -> [kind |-> "Ok", commits |-> r.list, error |-> "", tokens |-> <<>>]
          [] r.tag = "SomeInvalid"    -> [kind |-> "Err", commits |-> <<>>, error |-> "SomeInvalid", tokens |-> r.list]
          [] r.tag = "NoTagsFound"    -> [kind |-> "Err", commits |-> <<>>, error |-> "NoTagsFound", tokens |-> <<>>]
          [] OTHER                    -> [kind |-> "Panic", commits |-> <<>>, error |-> "", tokens |-> <<>>]

Tokens ==
    {"--all", "--branches", "--tags", "--since=b2", "--before=b2", "--since=a1",
     "--since", "main", "v1", "a1", "b2f00d", "nosuch", ""}
TokenLists == UNION {[1..k -> Tokens] : k \in 0..MaxTokens}
Unresolved == [kind |-> "Pending", commits |-> <<>>, error |-> "", tokens |-> <<>>]

ResolveIdle ==
    /\ pc = "resolve" /\ exit = "running" /\ dirty = FALSE /\ installed = TRUE
    /\ config_ok = TRUE /\ writable = TRUE /\ c = NoBenchmark /\ head = "main"
    /\ current_branch = None /\ files_to_be_merged = <<>> /\ statuses = <<>>
    /\ fs = <<>> /\ cmd_args = <<>> /\ report = None
    /\ run = 0 /\ kw_order = <<>> /\ params = <<>> /\ calls = 0

InitResolve ==
    /\ git \in Repos
    /\ vec \in TokenLists
    /\ resolved = Unresolved
    /\ ResolveIdle

(* deserialising one Run's `commits` through from_commit *)
FromCommit ==
    /\ resolved.kind = "Pending"
    /\ resolved' = from_commit(vec, git)
    /\ UNCHANGED <<git, vec, orchVars, synthVars>>

NextResolve == FromCommit

SpecResolve == InitResolve /\ [][NextResolve]_vars

-----------------------------------------------------------------------------
(*                   Claims about commit-set resolution                    *)

Resolved    == resolved.kind # "Pending"
Has(t)      == \E k \in 1..Len(vec) : vec[k] = t
HasRange    == \E k \in 1..Len(vec) :
                   starts_with(vec[k], "--since") \/ starts_with(vec[k], "--before")
HasSentinel == Has("--all") \/ Has("--branches") \/ Has("--tags") \/ HasRange
RuleTags    == ~Has("--all") /\ ~Has("--branches") /\ Has("--tags")

(* what the repository holds, not what the listing functions return *)
AbbrevIds   == Reverse(git.history)
RevisionIds ==
    Range(git.branches) \cup Range(git.tags) \cup Range(git.history)
        \cup {FullId(git.history[k]) : k \in 1..Len(git.history)}

(* C5: the first matching rule in the order --all, --branches, --tags,
   --since/--before, explicit list decides: --all gives the abbreviated
   commit ids whatever else is listed, else --branches gives the branch
   names, else --tags gives the tags or NoTagsFound, and a list with any
   sentinel token is never validated as an explicit list. *)
C5_RulePriority ==
    Resolved =>
        /\ Has("--all") => (resolved.kind = "Ok" /\ resolved.commits = AbbrevIds)
        /\ (~Has("--all") /\ Has("--branches"))
              => (resolved.kind = "Ok" /\ resolved.commits = git.branches)
        /\ RuleTags
              => \/ resolved.kind = "Ok" /\ resolved.commits = git.tags
                 \/ resolved.kind = "Err" /\ resolved.error = "NoTagsFound"
        /\ HasSentinel
              => /\ resolved.error # "SomeInvalid"
                 /\ ~(resolved.kind = "Ok" /\ resolved.commits = vec)

C5_Witness ==
    /\ Resolved /\ Has("--all") /\ Has("--branches")
    /\ resolved.kind = "Ok" /\ resolved.commits = AbbrevIds

(* C6: an explicit list (no sentinel token) whose tokens all name a branch,
   a tag, an abbreviated or a full commit id resolves to itself; otherwise
   resolution fails with SomeInvalid listing exactly the tokens that name
   none of these. *)
C6_ExplicitListValidated ==
    (Resolved /\ ~HasSentinel) =>
        IF Range(vec) \subseteq RevisionIds
           THEN resolved.kind = "Ok" /\ resolved.commits = vec
           ELSE /\ resolved.kind = "Err" /\ resolved.error = "SomeInvalid"
                /\ resolved.tokens = SelectSeq(vec, LAMBDA t : t \notin RevisionIds)

(* C7: when --tags is the matching rule, a repository without tags gives
   NoTagsFound and a repository with tags gives exactly its tags. *)
C7_TagsRule ==
    (Resolved /\ RuleTags) =>
        IF git.tags = <<>>
           THEN resolved.kind = "Err" /\ resolved.error = "NoTagsFound"
           ELSE resolved.kind = "Ok" /\ resolved.commits = git.tags

C7_Witness ==
    /\ Resolved /\ RuleTags /\ git.tags = <<>>
    /\ resolved.kind = "Err" /\ resolved.error = "NoTagsFound"

(* C13: resolution is total: every commits list, a --since or --before token
   without =value included, ends with a resolved list or with NoTagsFound or
   SomeInvalid, never with another abnormal termination. *)
C13_ResolutionTotal ==
    Resolved => resolved.kind \in {"Ok", "Err"}

-----------------------------------------------------------------------------
(*                  Parameter synthesis: core.rs, util.rs                  *)

MaxAnnotations == 2     \* most entries of a Run's `annotations`

AnnotationPool == {<<"size", "wc -c f">>, <<"host", "hostname">>, <<"rev", "git rev-parse HEAD">>}

(* struct Run of core.rs:82-92; `commits` as from_commit left it *)
CoreRuns ==
    [commits     : Option({<<>>, <<"a">>, <<"a", "b">>}),
     cleanup     : Option({"rm -f x"}),
     prepare     : Option({"make clean"}),
     setup       : Option({"make"}),
     shell       : Option({"bash"}),
     annotations : Option({kw \in SUBSET AnnotationPool : Cardinality(kw) <= MaxAnnotations}),
     command     : {"./bench"}]

(* the orders in which a HashMap with these entries may be iterated *)
IterationOrders(kw) ==
    {o \in [1..Cardinality(kw) -> kw] : \A i, j \in 1..Cardinality(kw) : i # j => o[i] # o[j]}

(* util.rs:256-261 generate_jq_cmd *)
generate_jq_cmd(key, cmd, json) ==
    "jq --arg " \o key \o " $(" \o cmd \o ") '.results[0]." \o key \o "=$" \o key \o "' " \o json

(* to_hyperfine with the --prepare block ahead of the --cleanup block *)
to_hyperfine_prepare_first(r) ==
    (IF IsSome(r.shell) /\ ~(IsSome(r.commits) /\ IsSome(r.setup))
        THEN <<"--shell", Unwrap(r.shell)>> ELSE <<>>)
    \o (IF IsSome(r.commits)
           THEN <<"--parameter-list", "commit", join(Unwrap(r.commits), ",")>> ELSE <<>>)
    \o (IF IsSome(r.prepare) THEN <<"--prepare", Unwrap(r.prepare)>> ELSE <<>>)
    \o (IF IsSome(r.cleanup) THEN <<"--cleanup", Unwrap(r.cleanup)>> ELSE <<>>)
    \o (IF IsSome(r.setup) /\ IsSome(r.commits)
           THEN <<"--setup", "git checkout {commit} && " \o Unwrap(r.setup)>>
        ELSE IF IsSome(r.commits)
           THEN <<"--setup", "git checkout {commit}">>
        ELSE IF IsSome(r.setup)
           THEN <<"--setup", Unwrap(r.setup)>>
        ELSE <<>>)
    \o <<r.command>>

(* to_hyperfine with a --setup segment only for a Run that has commits *)
to_hyperfine_setup_needs_commits(r) ==
    (IF IsSome(r.shell) /\ ~(IsSome(r.commits) /\ IsSome(r.setup))
        THEN <<"--shell", Unwrap(r.shell)>> ELSE <<>>)
    \o (IF IsSome(r.commits)
           THEN <<"--parameter-list", "commit", join(Unwrap(r.commits), ",")>> ELSE <<>>)
    \o (IF IsSome(r.cleanup) THEN <<"--cleanup", Unwrap(r.cleanup)>> ELSE <<>>)
    \o (IF IsSome(r.prepare) THEN <<"--prepare", Unwrap(r.prepare)>> ELSE <<>>)
    \o (IF IsSome(r.setup) /\ IsSome(r.commits)
           THEN <<"--setup", "git checkout {commit} && " \o Unwrap(r.setup)>>
        ELSE IF IsSome(r.commits)
           THEN <<"--setup", "git checkout {commit}">>
        ELSE <<>>)
    \o <<r.command>>

(* core.rs:187-239 Run::to_hyperfine *)
to_hyperfine(r) ==
    (IF IsSome(r.shell) /\ ~(IsSome(r.commits) /\ IsSome(r.setup))
        THEN <<"--shell", Unwrap(r.shell)>> ELSE <<>>)
    \o (IF IsSome(r.commits)
           THEN <<"--parameter-list", "commit", join(Unwrap(r.commits), ",")>> ELSE <<>>)
    \o (IF IsSome(r.cleanup) THEN <<"--cleanup", Unwrap(r.cleanup)>> ELSE <<>>)
    \o (IF IsSome(r.prepare) THEN <<"--prepare", Unwrap(r.prepare)>> ELSE <<>>)
    \o (IF IsSome(r.setup) /\ IsSome(r.commits)
           THEN <<"--setup", "git checkout {commit} && " \o Unwrap(r.setup)>>
        ELSE IF IsSome(r.commits)
           THEN <<"--setup", "git checkout {commit}">>
        ELSE IF IsSome(r.setup)
           THEN <<"--setup", Unwrap(r.setup)>>
        ELSE <<>>)
    \o <<r.command>>

(* core.rs:15-20 Hyperfined::to_hyperfine_with_json *)
to_hyperfine_with_json(r, json) ==
    to_hyperfine(r) \o <<"--export-json", json>>

(* Iterator::position: index of the first element equal to x, 0 for None *)
position(s, x) ==
    IF \E k \in 1..Len(s) : s[k] = x
        THEN CHOOSE k \in 1..Len(s) : s[k] = x /\ \A j \in 1..(k - 1) : s[j] # x
        ELSE 0

(* core.rs:21-37 Hyperfined::to_hyperfine_with_json_and_annotations; `order`
   is the order kw.iter() yields the entries in *)
to_hyperfine_with_json_and_annotations(r, json, order) ==
    LET p0          == to_hyperfine_with_json(r, json)
        annotations == [k \in 1..Len(order) |-> generate_jq_cmd(order[k][1], order[k][2], json)]
        ix          == position(p0, "--cleanup")
    IN  IF ix # 0
           THEN SubSeq(p0, 1, ix)
                \o <<join(Append(annotations, p0[ix + 1]), "&&")>>
                \o SubSeq(p0, ix + 1, Len(p0))
           ELSE p0 \o <<"--cleanup", join(annotations, "&&")>>

ExportJson == JsonPath("a")
NotSynthesized == [op |-> "none", args |-> <<>>]

SynthIdle ==
    /\ pc = "synth" /\ exit = "running" /\ dirty = FALSE /\ installed = TRUE
    /\ config_ok = TRUE /\ writable = TRUE /\ c = NoBenchmark /\ head = "main"
    /\ current_branch = None /\ files_to_be_merged = <<>> /\ statuses = <<>>
    /\ fs = <<>> /\ cmd_args = <<>> /\ report = None
    /\ git = 0 /\ vec = <<>> /\ resolved = 0

InitSynth ==
    /\ run \in CoreRuns
    /\ kw_order = <<>>
    /\ params = NotSynthesized
    /\ calls = 0
    /\ SynthIdle

(* run.to_hyperfine() *)
ToHyperfine ==
    /\ params.op = "none"
    /\ params' = [op |-> "to_hyperfine", args |-> to_hyperfine(run)]
    /\ calls' = 1
    /\ UNCHANGED <<run, kw_order, orchVars, resolveVars>>

(* run.to_hyperfine_with_json(json) *)
ToHyperfineWithJson ==
    /\ params.op = "none"
    /\ params' = [op |-> "to_hyperfine_with_json", args |-> to_hyperfine_with_json(run, ExportJson)]
    /\ calls' = 1
    /\ UNCHANGED <<run, kw_order, orchVars, resolveVars>>

(* run.to_hyperfine_with_json_and_annotations(json, kw) with the Run's annotations *)
ToHyperfineWithJsonAndAnnotations ==
    /\ params.op = "none"
    /\ IsSome(run.annotations)
    /\ \E order \in IterationOrders(Unwrap(run.annotations)) :
          /\ kw_order' = order
          /\ params' = [op   |-> "to_hyperfine_with_json_and_annotations",
                        args |-> to_hyperfine_with_json_and_annotations(run, ExportJson, order)]
    /\ calls' = 1
    /\ UNCHANGED <<run, orchVars, resolveVars>>

MaxCalls == 2       \* most calls on one Run

(* a further call that walks the map in an order of its own *)
AnnotateAgainReordered ==
    /\ params.op = "to_hyperfine_with_json_and_annotations"
    /\ calls < MaxCalls
    /\ \E order \in IterationOrders(Unwrap(run.annotations)) :
          /\ kw_order' = order
          /\ params' = [op   |-> "to_hyperfine_with_json_and_annotations",
                        args |-> to_hyperfine_with_json_and_annotations(run, ExportJson, order)]
    /\ calls' = calls + 1
    /\ UNCHANGED <<run, orchVars, resolveVars>>

(* a further run.to_hyperfine_with_json_and_annotations(json, kw) on the same
   Run: kw is borrowed immutably (core.rs:21), so kw.iter() walks the same
   unmodified HashMap and yields its entries in the order it did before *)
AnnotateAgain ==
    /\ params.op = "to_hyperfine_with_json_and_annotations"
    /\ calls < MaxCalls
    /\ params' = [op   |-> "to_hyperfine_with_json_and_annotations",
                  args |-> to_hyperfine_with_json_and_annotations(run, ExportJson, kw_order)]
    /\ calls' = calls + 1
    /\ UNCHANGED <<run, kw_order, orchVars, resolveVars>>

NextSynth ==
    \/ ToHyperfine
    \/ ToHyperfineWithJson
    \/ ToHyperfineWithJsonAndAnnotations
    \/ AnnotateAgain

SpecSynth == InitSynth /\ [][NextSynth]_vars

-----------------------------------------------------------------------------
(*                   Claims about parameter synthesis                      *)

SegmentFlags == <<"--shell", "--parameter-list", "--cleanup", "--prepare", "--setup">>
Count(s, x)  == Cardinality({k \in 1..Len(s) : s[k] = x})
Suffix(s, n) == SubSeq(s, Len(s) - n + 1, Len(s))

(* C8: in Run::to_hyperfine's output the segments that are present stand in
   the order --shell, --parameter-list, --cleanup, --prepare, --setup, each
   flag once, and the command string is the last element; commits = [a, b],
   cleanup = "rm -f x", no setup and no prepare ends with --parameter-list
   commit "a,b" --cleanup "rm -f x" --setup "git checkout {commit}" <command>. *)
C8_OrderStable ==
    params.op = "to_hyperfine" =>
        LET a == params.args
        IN  /\ Last(a) = run.command
            /\ \A i \in 1..Len(SegmentFlags) : Count(a, SegmentFlags[i]) <= 1
            /\ \A i, j \in 1..Len(SegmentFlags) :
                  (i < j /\ position(a, SegmentFlags[i]) # 0 /\ position(a, SegmentFlags[j]) # 0)
                      => position(a, SegmentFlags[i]) < position(a, SegmentFlags[j])
            /\ \A i \in 1..Len(SegmentFlags) :
                  position(a, SegmentFlags[i]) < Len(a)
            /\ (/\ run.commits = Some(<<"a", "b">>) /\ run.cleanup = Some("rm -f x")
                /\ run.setup = None /\ run.prepare = None)
                  => Suffix(a, 8) = <<"--parameter-list", "commit", "a,b", "--cleanup", "rm -f x",
                                      "--setup", "git checkout {commit}", run.command>>

C8_Witness ==
    /\ params.op = "to_hyperfine"
    /\ run.commits = Some(<<"a", "b">>) /\ run.cleanup = Some("rm -f x")
    /\ run.setup = None /\ run.prepare = Some("make clean") /\ run.shell = Some("bash")
    /\ position(params.args, "--shell") = 1
    /\ position(params.args, "--cleanup") < position(params.args, "--prepare")
    /\ position(params.args, "--prepare") < position(params.args, "--setup")

(* the annotation commands of the Run in iteration order, joined with && *)
AnnotationChain ==
    join([k \in 1..Len(kw_order) |->
             generate_jq_cmd(kw_order[k][1], kw_order[k][2], ExportJson)], "&&")

(* C12: synthesis is deterministic for one Run, annotations map and export
   path: a further call returns the same argument sequence as the call
   before, the order of the annotation commands in the --cleanup chain
   included. *)
C12_SameArgumentsEveryCall ==
    [][(/\ params.op = "to_hyperfine_with_json_and_annotations"
        /\ params'.op = "to_hyperfine_with_json_and_annotations")
          => params'.args = params.args]_vars

C12_Witness ==
    /\ params.op = "to_hyperfine_with_json_and_annotations"
    /\ calls = 2
    /\ Len(kw_order) = 2
    /\ run.cleanup = None
    /\ Last(params.args) = AnnotationChain

(* C14: to_hyperfine appends --parameter-list commit <comma-joined ids> if
   and only if the commits of the Run resolved to a non-empty list; absent
   commits or an empty list give no --parameter-list segment. *)
C14_ParameterListIffNonEmpty ==
    params.op = "to_hyperfine" =>
        LET k        == position(params.args, "--parameter-list")
            nonEmpty == IsSome(run.commits) /\ Unwrap(run.commits) # <<>>
        IN  /\ k # 0 <=> nonEmpty
            /\ nonEmpty => /\ params.args[k + 1] = "commit"
                           /\ params.args[k + 2] = join(Unwrap(run.commits), ",")

(* C15: the --setup value follows the four cases: commits and setup set give
   the checkout of {commit}, then &&, then the user setup; commits alone
   give the bare checkout; setup alone gives the user setup unchanged;
   neither gives no --setup segment. *)
C15_SetupComposition ==
    params.op # "none" =>
        LET k == position(params.args, "--setup")
        IN  /\ Count(params.args, "--setup") <= 1
            /\ CASE IsSome(run.commits) /\ IsSome(run.setup) ->
                       /\ k # 0
                       /\ params.args[k + 1] =
                              "git checkout {commit}" \o " && " \o Unwrap(run.setup)
                 [] IsSome(run.commits) /\ ~IsSome(run.setup) ->
                       k # 0 /\ params.args[k + 1] = "git checkout {commit}"
                 [] ~IsSome(run.commits) /\ IsSome(run.setup) ->
                       k # 0 /\ params.args[k + 1] = Unwrap(run.setup)
                 [] OTHER -> k = 0

C15_Witness ==
    /\ params.op = "to_hyperfine"
    /\ IsSome(run.commits) /\ Unwrap(run.commits) # <<>>
    /\ IsSome(run.setup)
    /\ starts_with(params.args[position(params.args, "--setup") + 1],
                   "git checkout {commit} && ")

(* C9: annotation injection leaves a single --cleanup entry: one --cleanup
   flag followed by one value, which is the annotation chain followed by
   && and the Run's own cleanup when it has one (and that cleanup is then
   no argument of its own), or the bare annotation chain when it has none. *)
C9_SingleCleanupEntry ==
    (params.op = "to_hyperfine_with_json_and_annotations" /\ kw_order # <<>>) =>
        LET a  == params.args
            ix == position(a, "--cleanup")
        IN  /\ Count(a, "--cleanup") = 1
            /\ ix < Len(a)
            /\ IF IsSome(run.cleanup)
                  THEN /\ a[ix + 1] = AnnotationChain \o "&&" \o Unwrap(run.cleanup)
                       /\ Count(a, Unwrap(run.cleanup)) = 0
                       /\ Len(a) = Len(to_hyperfine_with_json(run, ExportJson))
                  ELSE /\ a[ix + 1] = AnnotationChain
                       /\ Len(a) = Len(to_hyperfine_with_json(run, ExportJson)) + 2

-----------------------------------------------------------------------------
(*                    The result merger of util.rs                         *)

MaxFiles   == 2     \* longest list of files to merge
MaxResults == 2     \* most results in one export file

(* entries of a hyperfine export's `results`: the command and, under
   parameters, the value of the commit key when there is one *)
MergeResults ==
    {[command |-> "foo", parameters |-> Some("abc")],
     [command |-> "foo", parameters |-> Some("def")],
     [command |-> "foo", parameters |-> None],
     [command |-> "bar", parameters |-> Some("abc")]}
MergePaths == {JsonPath("a"), JsonPath("b")}
Exports    == UNION {[1..k -> MergeResults] : k \in 0..MaxResults}

(* the rewrite left out: every result as it was read *)
move_commit_label_unchanged(results) == results

(* util.rs:236-253 move_commit_label_to_cmd_name, on the `results` array *)
move_commit_label_to_cmd_name(results) ==
    [k \in 1..Len(results) |->
        IF IsSome(results[k].parameters)
           THEN [results[k] EXCEPT
                    !.command = join(<<results[k].command, Unwrap(results[k].parameters)>>, "@")]
           ELSE results[k]]

(* util.rs:213-234 merge_json_files: Ok(document), Err or a panic *)
util_merge_json_files(files, disk) ==
    IF Len(files) = 0
        THEN [kind |-> "Panic", results |-> <<>>]       \* files[0] out of bounds
    ELSE IF \E k \in 1..Len(files) : ~IsSome(disk[files[k]])
        THEN [kind |-> "Err", results |-> <<>>]         \* File::open(..)?
    ELSE LET RECURSIVE append(_, _)
             append(result_list, k) ==
                 IF k > Len(files) THEN result_list
                 ELSE append(result_list
                                \o move_commit_label_to_cmd_name(Unwrap(disk[files[k]])),
                             k + 1)
         IN  [kind    |-> "Ok",
              results |-> append(move_commit_label_to_cmd_name(Unwrap(disk[files[1]])), 2)]

MergeIdle ==
    /\ pc = "merge_json_files" /\ exit = "running" /\ dirty = FALSE /\ installed = TRUE
    /\ config_ok = TRUE /\ writable = TRUE /\ c = NoBenchmark /\ head = "main"
    /\ current_branch = None /\ statuses = <<>> /\ cmd_args = <<>>
    /\ git = 0 /\ vec = <<>> /\ resolved = 0
    /\ run = 0 /\ kw_order = <<>> /\ params = <<>> /\ calls = 0

InitMerge ==
    /\ files_to_be_merged \in UNION {[1..k -> MergePaths] : k \in 0..MaxFiles}
    /\ fs \in [MergePaths -> Option(Exports)]
    /\ report = None
    /\ MergeIdle

(* util::merge_json_files(&files) *)
UtilMergeJsonFiles ==
    /\ report = None
    /\ report' = Some(util_merge_json_files(files_to_be_merged, fs))
    /\ UNCHANGED <<pc, exit, dirty, installed, config_ok, writable, c, head, current_branch,
                   files_to_be_merged, statuses, fs, cmd_args, resolveVars, synthVars>>

NextMerge == UtilMergeJsonFiles

SpecMerge == InitMerge /\ [][NextMerge]_vars

(* the results of the files in list order, one after the other, each with
   its command qualified by its commit *)
Qualified(res) ==
    IF res.parameters = None THEN res
    ELSE [command |-> res.command \o "@" \o res.parameters[1], parameters |-> res.parameters]
RECURSIVE FileOrder(_)
FileOrder(k) ==
    IF k > Len(files_to_be_merged) THEN <<>>
    ELSE LET rs == fs[files_to_be_merged[k]][1]
         IN  [j \in 1..Len(rs) |-> Qualified(rs[j])] \o FileOrder(k + 1)
AllFilesValid ==
    /\ files_to_be_merged # <<>>
    /\ \A k \in 1..Len(files_to_be_merged) : fs[files_to_be_merged[k]] # None

(* C11: for a non-empty list of valid export files the merged `results` is
   the concatenation, in file order and keeping duplicates, of every file's
   results, where a result with a commit parameter has its command rewritten
   to <command>@<commit> and any other result is unchanged. *)
C11_MergeConcatenates ==
    (report # None /\ AllFilesValid) =>
        /\ report[1].kind = "Ok"
        /\ report[1].results = FileOrder(1)

C11_Witness ==
    /\ report # None
    /\ files_to_be_merged = <<JsonPath("a"), JsonPath("b")>>
    /\ fs[JsonPath("a")] = Some(<<[command |-> "foo", parameters |-> Some("abc")]>>)
    /\ fs[JsonPath("b")] = Some(<<[command |-> "foo", parameters |-> Some("def")]>>)
    /\ report[1].results = <<[command |-> "foo@abc", parameters |-> Some("abc")],
                             [command |-> "foo@def", parameters |-> Some("def")]>>

====
